---- MODULE Spec2Model ----
(***************************************************************************)
(* Model of the OCR entry point (src/ocr-project/src/types/index.ts).      *)
(*                                                                         *)
(* The program is one script: it defines the async function main, calls   *)
(* it, and attaches a rejection handler to the promise main returns.  The  *)
(* model follows the JavaScript run-to-completion steps of that script:    *)
(* the synchronous run of the script (main up to its await, then .catch),  *)
(* the settlement of the extraction promise by the OCR engine, the         *)
(* resumption of main after the await, the run of the catch handler, and   *)
(* the end of the process once the event loop is empty: no job is ready    *)
(* to run and no event-loop handle is open.  A pending promise alone does  *)
(* not keep the process alive.                                             *)
(*                                                                         *)
(* The class OCR is imported from ./ocr/ocr, which is not among the        *)
(* sources; its constructor and extractText are modelled from the          *)
(* specification as an external collaborator that may fail.                *)
(***************************************************************************)
EXTENDS Integers, Sequences, FiniteSets

\* ---------------------------------------------------------------- bounds
\* Confidence is a number in [0,1]; it is modelled as c / ConfSteps with
\* c an integer, so the range [0,1] is 0..ConfSteps.
ConfSteps == 3

\* Number of additional extraction attempts the retrying variant of main
\* (a deliberately wrong variant used to test the no-retry property) makes.
MaxRetries == 1

\* ------------------------------------------------------------- constants
\* index.ts:15  const imagePath = 'path/to/image.png'
imagePath == "path/to/image.png"

\* index.ts:17  first argument of console.log (a Japanese label meaning
\* "extracted text:"); the label is kept as an ASCII tag.
LogLabel == "extracted-text:"

\* index.ts:21  first argument of console.error (a Japanese label meaning
\* "an error occurred:").
ErrorLabel == "error-occurred:"

\* Paths the file system of a run may contain.
Paths == {imagePath, "samples/hello.png"}

\* Texts an image may contain (the empty text included).
Texts == {"", "HELLO", "A"}

\* Messages of the errors the collaborator may raise.
UnreadableMsg == "unreadable path"
EngineMsg == "engine failure"
CtorMsg == "client construction failed"

\* ------------------------------------------------------ JavaScript values
\* Values are tagged with their JavaScript type, so that a string and an
\* object are different values that can still be compared.
Undefined == [type |-> "undefined"]

StringVal(s) == [type |-> "string", str |-> s]

ErrorVal(m) == [type |-> "error", message |-> m]

\* index.ts:7-10  interface TextResult { text: string; confidence: number }
TextResult(t, c) == [type |-> "object", text |-> t, confidence |-> c]

\* index.ts:1-5  interface Image { url; width; height }
Image(u, w, h) == [type |-> "object", url |-> u, width |-> w, height |-> h]

\* The results the engine may return for a readable image.
TextResults == {TextResult(t, c) : t \in Texts, c \in 0..ConfSteps}

\* One line written by console.log / console.error: the label followed by
\* the inspected second argument.  console.* renders an object argument with
\* all its own properties, a string argument as the string itself; the
\* tagged value keeps exactly that information.
ConsoleLine(label, value) == [label |-> label, value |-> value]

VARIABLES
    files,        \* environment: the readable image paths
    ocr,          \* "none" | "constructed" | "ctorThrew"
    mainState,    \* "notStarted" | "awaiting" | "returned" | "threw"
    mainPromise,  \* [state, value]: the promise returned by main()
    catchAttached,\* a rejection handler is attached to mainPromise
    catchRan,     \* the handler has run
    call,         \* [state, path, value]: the last extractText call
    calls,        \* number of extractText invocations
    outstanding,  \* number of extractText promises not yet settled
    handles,      \* event-loop handles the engine holds open (0 or 1)
    stdout,       \* lines written by console.log
    stderr,       \* lines written by console.error / the runtime
    exit          \* [exited, code, path]

vars == <<files, ocr, mainState, mainPromise, catchAttached, catchRan,
          call, calls, outstanding, handles, stdout, stderr, exit>>

NoCall == [state |-> "none", path |-> "", value |-> Undefined]

NoExit == [exited |-> FALSE, code |-> 0, path |-> "none"]

Init ==
    /\ files \in SUBSET Paths
    /\ ocr = "none"
    /\ mainState = "notStarted"
    /\ mainPromise = [state |-> "none", value |-> Undefined]
    /\ catchAttached = FALSE
    /\ catchRan = FALSE
    /\ call = NoCall
    /\ calls = 0
    /\ outstanding = 0
    /\ handles = 0
    /\ stdout = <<>>
    /\ stderr = <<>>
    /\ exit = NoExit

\* ------------------------------------------------------ the script's run
\* A variant of the script without the .catch of line 20.
NoTopLevelCatch == FALSE

\* index.ts:20-22  main().catch(...): the script attaches a rejection
\* handler to the promise of main in the same synchronous run as the call.
TopLevelCatch == TRUE

\* A variant in which the client is constructed outside main: the exception
\* is then not turned into a rejection and ends the process.
RunScriptCtorEscapes ==
    /\ mainState = "notStarted"
    /\ ~exit.exited
    /\ ocr' = "ctorThrew"
    /\ mainState' = "threw"
    /\ exit' = [exited |-> TRUE, code |-> 1, path |-> "uncaughtException"]
    /\ stderr' = Append(stderr, ConsoleLine("Uncaught", ErrorVal(CtorMsg)))
    /\ UNCHANGED <<files, handles, mainPromise, catchAttached, catchRan, call, calls,
                   outstanding, stdout>>

\* Synchronous run of the script when `new OCR()` (index.ts:14) throws: the
\* exception of an async function rejects its promise; line 16 is not
\* reached.  The handler of line 20 is then attached.
RunScriptCtorThrows ==
    /\ mainState = "notStarted"
    /\ ~exit.exited
    /\ ocr' = "ctorThrew"
    /\ mainState' = "threw"
    /\ mainPromise' = [state |-> "rejected", value |-> ErrorVal(CtorMsg)]
    /\ catchAttached' = TopLevelCatch
    /\ UNCHANGED <<files, handles, catchRan, call, calls, outstanding, stdout,
                   stderr, exit>>

\* Synchronous run of the script when extractText (index.ts:16) throws
\* before returning a promise: main's promise is rejected with that error.
RunScriptCallThrows ==
    /\ mainState = "notStarted"
    /\ ~exit.exited
    /\ ocr' = "constructed"
    /\ calls' = calls + 1
    /\ call' = [state |-> "threw", path |-> imagePath,
                value |-> ErrorVal(IF imagePath \in files
                                   THEN EngineMsg ELSE UnreadableMsg)]
    /\ mainState' = "threw"
    /\ mainPromise' = [state |-> "rejected", value |-> call'.value]
    /\ catchAttached' = TopLevelCatch
    /\ UNCHANGED <<files, handles, catchRan, outstanding, stdout, stderr, exit>>

\* A variant that does not wait for the extraction: it prints the pending
\* promise at once (used to test that the result is awaited).
RunScriptNoAwait ==
    /\ mainState = "notStarted"
    /\ ~exit.exited
    /\ ocr' = "constructed"
    /\ calls' = calls + 1
    /\ outstanding' = outstanding + 1
    /\ call' = [state |-> "pending", path |-> imagePath, value |-> Undefined]
    /\ stdout' = Append(stdout, ConsoleLine(LogLabel, Undefined))
    /\ mainState' = "returned"
    /\ mainPromise' = [state |-> "fulfilled", value |-> Undefined]
    /\ catchAttached' = TopLevelCatch
    /\ \E h \in 0..1 : handles' = h
    /\ UNCHANGED <<files, catchRan, stderr, exit>>

\* Synchronous run of the script in the ordinary case (index.ts:13-16, 20):
\* the client is constructed, extractText(imagePath) returns a pending
\* promise, main suspends at the await, and the handler is attached.  The
\* engine may or may not hold an event-loop handle (a file read, a socket,
\* a worker) for the pending extraction.
RunScriptAwait ==
    /\ mainState = "notStarted"
    /\ ~exit.exited
    /\ ocr' = "constructed"
    /\ calls' = calls + 1
    /\ outstanding' = outstanding + 1
    /\ call' = [state |-> "pending", path |-> imagePath, value |-> Undefined]
    /\ mainState' = "awaiting"
    /\ mainPromise' = [state |-> "pending", value |-> Undefined]
    /\ catchAttached' = TopLevelCatch
    /\ \E h \in 0..1 : handles' = h
    /\ UNCHANGED <<files, catchRan, stdout, stderr, exit>>

\* ------------------------------------------- the engine settles the call
\* A variant of the engine whose confidence leaves the range [0,1].
EngineResolveUnbounded ==
    /\ call.state = "pending"
    /\ ~exit.exited
    /\ call.path \in files
    /\ \E t \in Texts :
          call' = [call EXCEPT !.state = "resolved",
                               !.value = TextResult(t, ConfSteps + 1)]
    /\ outstanding' = outstanding - 1
    /\ \E h \in 0..handles : handles' = h
    /\ UNCHANGED <<files, ocr, mainState, mainPromise, catchAttached,
                   catchRan, calls, stdout, stderr, exit>>

\* extractText succeeds: for a readable path the engine returns one
\* TextResult (a text, possibly empty, and a confidence in [0,1]).  On
\* settling, the engine closes its handle or keeps it open.
EngineResolve ==
    /\ call.state = "pending"
    /\ ~exit.exited
    /\ call.path \in files
    /\ \E r \in TextResults :
          call' = [call EXCEPT !.state = "resolved", !.value = r]
    /\ outstanding' = outstanding - 1
    /\ \E h \in 0..handles : handles' = h
    /\ UNCHANGED <<files, ocr, mainState, mainPromise, catchAttached,
                   catchRan, calls, stdout, stderr, exit>>

\* extractText fails: the path is unreadable, or the engine fails on a
\* readable image.
EngineReject ==
    /\ call.state = "pending"
    /\ ~exit.exited
    /\ call' = [call EXCEPT !.state = "rejected",
                  !.value = ErrorVal(IF call.path \in files
                                     THEN EngineMsg ELSE UnreadableMsg)]
    /\ outstanding' = outstanding - 1
    /\ \E h \in 0..handles : handles' = h
    /\ UNCHANGED <<files, ocr, mainState, mainPromise, catchAttached,
                   catchRan, calls, stdout, stderr, exit>>

\* --------------------------------------------------- main after the await
\* A variant printing only the text field of the result.
ResumeMainTextOnly ==
    /\ mainState = "awaiting"
    /\ call.state = "resolved"
    /\ ~exit.exited
    /\ stdout' = Append(stdout, ConsoleLine(LogLabel, StringVal(call.value.text)))
    /\ mainState' = "returned"
    /\ mainPromise' = [state |-> "fulfilled", value |-> Undefined]
    /\ UNCHANGED <<files, handles, ocr, catchAttached, catchRan, call, calls,
                   outstanding, stderr, exit>>

\* index.ts:16-18  the await yields the TextResult; console.log writes the
\* label and the TextResult object; main returns and its promise is
\* fulfilled.
ResumeMain ==
    /\ mainState = "awaiting"
    /\ call.state = "resolved"
    /\ ~exit.exited
    /\ stdout' = Append(stdout, ConsoleLine(LogLabel, call.value))
    /\ mainState' = "returned"
    /\ mainPromise' = [state |-> "fulfilled", value |-> Undefined]
    /\ UNCHANGED <<files, handles, ocr, catchAttached, catchRan, call, calls,
                   outstanding, stderr, exit>>

\* Variants of the failure path of main: one wrapping the error in a new
\* one, one swallowing it, one calling extractText again.
ResumeMainThrowWrapped ==
    /\ mainState = "awaiting"
    /\ call.state = "rejected"
    /\ ~exit.exited
    /\ mainState' = "threw"
    /\ mainPromise' = [state |-> "rejected", value |-> ErrorVal("extraction failed")]
    /\ UNCHANGED <<files, handles, ocr, catchAttached, catchRan, call, calls,
                   outstanding, stdout, stderr, exit>>

ResumeMainThrowSwallowed ==
    /\ mainState = "awaiting"
    /\ call.state = "rejected"
    /\ ~exit.exited
    /\ mainState' = "returned"
    /\ mainPromise' = [state |-> "fulfilled", value |-> Undefined]
    /\ UNCHANGED <<files, handles, ocr, catchAttached, catchRan, call, calls,
                   outstanding, stdout, stderr, exit>>

ResumeMainThrowRetry ==
    /\ mainState = "awaiting"
    /\ call.state = "rejected"
    /\ ~exit.exited
    /\ IF calls <= MaxRetries
       THEN /\ calls' = calls + 1
            /\ outstanding' = outstanding + 1
            /\ call' = [state |-> "pending", path |-> imagePath,
                        value |-> Undefined]
            /\ UNCHANGED <<mainState, mainPromise>>
       ELSE /\ mainState' = "threw"
            /\ mainPromise' = [state |-> "rejected", value |-> call.value]
            /\ UNCHANGED <<call, calls, outstanding>>
    /\ UNCHANGED <<files, handles, ocr, catchAttached, catchRan, stdout, stderr, exit>>

\* index.ts:16  the await throws the error of the rejected extraction; main
\* has no try/catch, so the error rejects main's promise unchanged and
\* line 17 is not executed.
ResumeMainThrow ==
    /\ mainState = "awaiting"
    /\ call.state = "rejected"
    /\ ~exit.exited
    /\ mainState' = "threw"
    /\ mainPromise' = [state |-> "rejected", value |-> call.value]
    /\ UNCHANGED <<files, handles, ocr, catchAttached, catchRan, call, calls,
                   outstanding, stdout, stderr, exit>>

\* ------------------------------------------------------ the catch handler
\* A variant writing the error with console.log.
CatchHandlerToStdout ==
    /\ mainPromise.state = "rejected"
    /\ catchAttached
    /\ ~catchRan
    /\ ~exit.exited
    /\ stdout' = Append(stdout, ConsoleLine(ErrorLabel, mainPromise.value))
    /\ catchRan' = TRUE
    /\ UNCHANGED <<files, handles, ocr, mainState, mainPromise, catchAttached, call,
                   calls, outstanding, stderr, exit>>

\* index.ts:20-22  the handler receives the rejection reason of main's
\* promise and writes the label and the error with console.error.
CatchHandler ==
    /\ mainPromise.state = "rejected"
    /\ catchAttached
    /\ ~catchRan
    /\ ~exit.exited
    /\ stderr' = Append(stderr, ConsoleLine(ErrorLabel, mainPromise.value))
    /\ catchRan' = TRUE
    /\ UNCHANGED <<files, handles, ocr, mainState, mainPromise, catchAttached, call,
                   calls, outstanding, stdout, exit>>

\* ------------------------------------------------------- end of the process
\* The engine closes an event-loop handle it holds.
EngineRelease ==
    /\ handles = 1
    /\ ~exit.exited
    /\ handles' = 0
    /\ UNCHANGED <<files, ocr, mainState, mainPromise, catchAttached,
                   catchRan, call, calls, outstanding, stdout, stderr, exit>>

\* A promise job is ready to run: the continuation of main after a settled
\* await, or the handler of a rejected promise of main.
JobReady ==
    \/ mainState = "awaiting" /\ call.state \in {"resolved", "rejected"}
    \/ mainPromise.state = "rejected" /\ catchAttached /\ ~catchRan

\* The process ends when the event loop is empty: the script has run, no
\* promise job is ready and no handle is open.  A pending promise does not
\* count: when extractText's promise is pending with no handle behind it,
\* the process ends while main is still suspended at line 16.  The script
\* sets no exit code, so the code is 0.  A rejection with no handler
\* attached is ended by the runtime instead: it writes the error to the
\* error stream and exits with code 1.
ProcessExit ==
    /\ ~exit.exited
    /\ mainState # "notStarted"
    /\ ~JobReady
    /\ IF mainPromise.state = "rejected" /\ ~catchAttached
       THEN /\ exit' = [exited |-> TRUE, code |-> 1,
                        path |-> "unhandledRejection"]
            /\ stderr' = Append(stderr,
                                ConsoleLine("Unhandled", mainPromise.value))
       ELSE /\ handles = 0
            /\ exit' = [exited |-> TRUE, code |-> 0, path |-> "normal"]
            /\ UNCHANGED stderr
    /\ UNCHANGED <<files, handles, ocr, mainState, mainPromise, catchAttached,
                   catchRan, call, calls, outstanding, stdout>>

Next ==
    \/ RunScriptCtorThrows
    \/ RunScriptCallThrows
    \/ RunScriptAwait
    \/ EngineResolve
    \/ EngineReject
    \/ EngineRelease
    \/ ResumeMain
    \/ ResumeMainThrow
    \/ CatchHandler
    \/ ProcessExit

Spec == Init /\ [][Next]_vars


\* The steps the JavaScript runtime takes on its own: the script's run, the
\* continuation of main, the handler, and the end of the process.  The
\* settlement of the extraction and the closing of the engine's handle are
\* the engine's steps and are not among them.
ProgramStep ==
    \/ RunScriptCtorThrows
    \/ RunScriptCallThrows
    \/ RunScriptAwait
    \/ ResumeMain
    \/ ResumeMainThrow
    \/ CatchHandler
    \/ ProcessExit

\* The runtime never leaves a runnable job waiting for ever.
FairSpec == Init /\ [][Next]_vars /\ WF_vars(ProgramStep)

\* ------------------------------------------------------- derived notions
\* The state machine of the entry point, read off the promise of main.
Phase ==
    CASE mainPromise.state = "fulfilled" -> "Succeeded"
      [] mainPromise.state = "rejected"  -> "Failed"
      [] OTHER                           -> "Running"

\* The extraction call has failed, by rejecting or by throwing.
ExtractionFailed == call.state \in {"rejected", "threw"}

Printed == Len(stdout) + Len(stderr)

\* ------------------------------------------------------------------ claims

\* C1: whenever the extraction call fails (rejects or throws), the failure
\* reaches a handler attached to main's promise; once it has been delivered
\* the handler has printed the diagnostic line, and the process never ends
\* through the runtime's unhandled-rejection path.
C1_FailureCaught ==
    /\ (ExtractionFailed /\ mainPromise.state = "rejected") => catchAttached
    /\ (ExtractionFailed /\ exit.exited) =>
          /\ catchRan
          /\ Len(stderr) = 1
          /\ stderr[1].label = ErrorLabel
          /\ exit.path # "unhandledRejection"

C1_Witness ==
    /\ call.state = "rejected"
    /\ catchRan
    /\ exit.exited
    /\ imagePath \in files

\* C2 (as stated): on success the value written to standard output is the
\* text of the TextResult.
C2_Original ==
    Phase = "Succeeded" =>
        stdout = <<ConsoleLine(LogLabel, StringVal(call.value.text))>>

\* C2 (amended): on success exactly one line is written to standard output,
\* and the value written after the label is the whole TextResult returned by
\* extractText, its text together with its confidence.
C2_PrintsTextResult ==
    Phase = "Succeeded" =>
        /\ call.state = "resolved"
        /\ stdout = <<ConsoleLine(LogLabel, call.value)>>
        /\ stdout[1].value.text = call.value.text
        /\ stdout[1].value.confidence = call.value.confidence

C2_Witness ==
    /\ Phase = "Succeeded"
    /\ Len(stdout) = 1
    /\ stdout[1].value = TextResult("HELLO", ConfSteps)

\* C3 (as stated): the process exits with code 0 on success, and on failure
\* it prints an error line and exits through the default
\* unhandled-rejection path.
C3_Original ==
    exit.exited =>
        IF Phase = "Failed"
        THEN stderr # <<>> /\ exit.path = "unhandledRejection"
        ELSE exit.code = 0

\* C3 (amended): whenever the process exits it exits with code 0, on success
\* and on failure alike; on failure the handler of the script has printed
\* the error line to the error stream, so the rejection is handled and the
\* exit is the ordinary one, not the unhandled-rejection path.  (An exit
\* with main still suspended happens only while the call is pending, with
\* nothing printed.)
C3_ExitsNormally ==
    exit.exited =>
        /\ exit.code = 0
        /\ exit.path = "normal"
        /\ Phase = "Failed" =>
              stderr = <<ConsoleLine(ErrorLabel, mainPromise.value)>>
        /\ Phase = "Succeeded" => (stderr = <<>> /\ Len(stdout) = 1)
        /\ Phase = "Running" => (call.state = "pending" /\ Printed = 0)

C3_Witness ==
    /\ exit.exited
    /\ Phase = "Failed"
    /\ Len(stderr) = 1

\* C4: the run leaves Running for exactly one of Succeeded and Failed, both
\* of which are final; after a failed extraction extractText is not invoked
\* again; no run prints both the success line and the error line.
C4_TwoOutcomes ==
    /\ [](~(stdout # <<>> /\ stderr # <<>>))
    /\ [](calls <= 1)
    /\ [][/\ Phase # "Running" => Phase' = Phase
          /\ ExtractionFailed => calls' = calls
          /\ ExtractionFailed => call' = call]_vars

C4_Witness ==
    /\ call.state = "rejected"
    /\ Phase = "Failed"
    /\ exit.exited
    /\ calls = 1

\* C5 (as stated): every run issues exactly one extraction call, on the
\* literal path, with never more than one call outstanding, and the success
\* line is not printed before the call has returned.
C5_Original ==
    /\ mainState # "notStarted" => (calls = 1 /\ call.path = imagePath)
    /\ outstanding <= 1
    /\ stdout # <<>> => call.state = "resolved"
    /\ call.state = "pending" => mainState = "awaiting"

\* C5 (amended): a run in which the client is constructed issues exactly one
\* extraction call, on the literal path, and a run in which the construction
\* throws issues none; never more than one call is outstanding, main stays
\* suspended while the call is pending, and the success line is not printed
\* before the call has returned a result.
C5_OneAwaitedCall ==
    /\ ocr = "constructed" => (calls = 1 /\ call.path = imagePath)
    /\ ocr # "constructed" => (calls = 0 /\ call = NoCall)
    /\ outstanding <= 1
    /\ outstanding = (IF call.state = "pending" THEN 1 ELSE 0)
    /\ stdout # <<>> => call.state = "resolved"
    /\ call.state = "pending" => mainState = "awaiting"

C5_Witness ==
    /\ call.state = "resolved"
    /\ call.path = imagePath
    /\ calls = 1
    /\ stdout # <<>>

\* C6: when extractText fails, nothing is written to standard output; the
\* only output is the one error line on the error stream, and the process
\* ends with code 0.
C6_FailureOnlyStderr ==
    ExtractionFailed =>
        /\ stdout = <<>>
        /\ Len(stderr) <= 1
        /\ catchRan => stderr = <<ConsoleLine(ErrorLabel, mainPromise.value)>>
        /\ exit.exited => (Len(stderr) = 1 /\ exit.code = 0)

C6_Witness ==
    /\ ExtractionFailed
    /\ imagePath \notin files
    /\ Len(stderr) = 1
    /\ exit.exited

\* C7: a resolved extraction is an extraction of a readable path; its
\* result is a TextResult whose text is one of the texts (the empty one
\* included) and whose confidence lies in [0,1]; a call yields at most one
\* result: once settled its result never changes.
C7_TextResultBounded ==
    /\ [](call.state = "resolved" =>
            /\ call.path \in files
            /\ call.value.type = "object"
            /\ call.value.text \in Texts
            /\ call.value.confidence >= 0
            /\ call.value.confidence <= ConfSteps)
    /\ [][call.state \in {"resolved", "rejected", "threw"} => call' = call]_vars

C7_Witness ==
    /\ call.state = "resolved"
    /\ call.value.text = ""
    /\ call.value.confidence = 0

\* C8: main has no handler of its own: a failed extraction ends main with
\* its promise rejected by the very error extractText raised, and the value
\* the top-level handler logs after the label is that same error.
C8_ErrorUnchanged ==
    ExtractionFailed =>
        /\ mainState \in {"awaiting", "threw"}
        /\ mainState = "threw" =>
              mainPromise = [state |-> "rejected", value |-> call.value]
        /\ catchRan => stderr = <<ConsoleLine(ErrorLabel, call.value)>>

C8_Witness ==
    /\ call.state = "rejected"
    /\ catchRan
    /\ stderr = <<ConsoleLine(ErrorLabel, ErrorVal(UnreadableMsg))>>

\* C9: if a pending extraction always settles, the run reaches Succeeded or
\* Failed and has then printed exactly one line; no run prints more than
\* one line; while the extraction is pending the run is in Running and has
\* printed nothing, also when the process has ended with the call pending.
C9_Termination ==
    /\ ((call.state = "pending") ~> (call.state # "pending"))
          => <>[](Phase \in {"Succeeded", "Failed"} /\ Printed = 1)
    /\ [](Printed <= 1)
    /\ [](call.state = "pending" => (Phase = "Running" /\ Printed = 0))

C9_Witness ==
    /\ Phase = "Succeeded"
    /\ Printed = 1
    /\ exit.exited
    /\ call.value.text = "A"

\* C10: when the construction of the client throws, the run ends in Failed
\* through the same handler: extractText is never invoked, nothing is
\* written to standard output, and the error line with the constructor's
\* error is what the handler prints.
C10_CtorFailureCaught ==
    ocr = "ctorThrew" =>
        /\ calls = 0
        /\ call = NoCall
        /\ stdout = <<>>
        /\ Phase = "Failed"
        /\ catchAttached
        /\ catchRan => stderr = <<ConsoleLine(ErrorLabel, ErrorVal(CtorMsg))>>
        /\ ~catchRan => stderr = <<>>
        /\ exit.exited => (catchRan /\ exit.path = "normal")

C10_Witness ==
    /\ ocr = "ctorThrew"
    /\ catchRan
    /\ exit.exited
    /\ Len(stderr) = 1

====
